---- MODULE Spec2Model ----
(***************************************************************************)
(* Model of solarcell.py: the Newton-Raphson solve of the single-diode     *)
(* equation (solar_cell_current) and the voltage sweep that calls it.      *)
(*                                                                         *)
(* The program computes in IEEE-754 binary64.  The model computes in the   *)
(* same format: a float is a sign, a 53-bit significand and an exponent    *)
(* (or an infinity, or a NaN), and +, -, *, / round to nearest, ties to    *)
(* even, as the hardware does.  Significands are naturals held as          *)
(* little-endian sequences of base-2^15 limbs.                             *)
(***************************************************************************)
EXTENDS Integers, Sequences, FiniteSets

(***************************************************************************)
(* Naturals of any size: little-endian limb sequences, no high zero limb.  *)
(* An intermediate result is passed on as an operator argument, which TLC  *)
(* evaluates once.                                                         *)
(***************************************************************************)
LimbBits == 15
Base == 32768

Max2(a, b) == IF a >= b THEN a ELSE b
Min2(a, b) == IF a <= b THEN a ELSE b

\* e, with v evaluated first (TLC evaluates operator arguments on demand, and
\* a chain of unevaluated arguments is evaluated at the depth of its last link)
First(v, e) == IF v = v THEN e ELSE e

\* The largest element of a nonempty set of integers
MaxOf(S) == CHOOSE i \in S : \A j \in S : j <= i

\* 2^k for 0 <= k <= LimbBits
Pow2(k) == <<1, 2, 4, 8, 16, 32, 64, 128, 256, 512, 1024, 2048, 4096, 8192,
             16384, 32768>>[k + 1]

\* The number of bits of 0 <= k < Base
SmallBitLen(k) ==
  IF k = 0 THEN 0 ELSE CHOOSE w \in 1..LimbBits : Pow2(w - 1) <= k /\ k < Pow2(w)

Limb(a, i) == IF i >= 1 /\ i <= Len(a) THEN a[i] ELSE 0

\* The sequence f as an explicit tuple, each element evaluated once
Tup(f) == f \o <<>>

(***************************************************************************)
(* The arithmetic operators below are defined in two parts: Name(...) is   *)
(* what the rest of the module uses, NameBody(...) is its definition, and  *)
(* Ev applies the definition that the name selects.                        *)
(***************************************************************************)
RECURSIVE Ev(_, _)
BigAdd(a, b) == Ev("BigAdd", <<a, b>>)
BigSub(a, b) == Ev("BigSub", <<a, b>>)
BigMulSmall(a, d) == Ev("BigMulSmall", <<a, d>>)
BigMul(a, b) == Ev("BigMul", <<a, b>>)
BigShl(a, k) == Ev("BigShl", <<a, k>>)
BigShr(a, k) == Ev("BigShr", <<a, k>>)
BigDivMod(a, b) == Ev("BigDivMod", <<a, b>>)
BigPow10(k) == Ev("BigPow10", <<k>>)
Round(s, num, e) == Ev("Round", <<s, num, e>>)
FAdd(x, y) == Ev("FAdd", <<x, y>>)
FMul(x, y) == Ev("FMul", <<x, y>>)
FDiv(x, y) == Ev("FDiv", <<x, y>>)
FLess(x, y) == Ev("FLess", <<x, y>>)
FFma(x, y, z) == Ev("FFma", <<x, y, z>>)
FExp(x) == Ev("FExp", <<x>>)
Dec(s, ds, p10) == Ev("Dec", <<s, ds, p10>>)
FromInt(k) == Ev("FromInt", <<k>>)

NormTo(a, nz) == IF nz = {} THEN <<>> ELSE SubSeq(a, 1, MaxOf(nz))
Norm(a) ==
  IF a = <<>> THEN a
  ELSE IF a[Len(a)] # 0 THEN a
  ELSE NormTo(a, {i \in 1..Len(a) : a[i] # 0})

BigOfInt(k) ==
  IF k = 0 THEN <<>>
  ELSE IF k < Base THEN <<k>>
  ELSE IF k < Base * Base THEN <<k % Base, k \div Base>>
  ELSE <<k % Base, (k \div Base) % Base, k \div (Base * Base)>>

\* The carry into limb i of a sum whose limb sums are t: the nearest lower limb
\* that does not merely pass a carry on decides it (dec: the limbs that decide).
CarryFrom(t, dec) ==
  IF dec = {} THEN 0 ELSE IF t[MaxOf(dec)] >= Base THEN 1 ELSE 0
CarryIn(t, i) ==
  IF i = 1 THEN 0
  ELSE IF t[i - 1] # Base - 1 THEN (IF t[i - 1] >= Base THEN 1 ELSE 0)
  ELSE CarryFrom(t, {j \in 1..(i - 1) : t[j] # Base - 1})

Carry(t) == Norm(Tup([i \in 1..Len(t) |-> (t[i] + CarryIn(t, i)) % Base]))
AddLimbs(a, b, len) == Tup([i \in 1..len |-> Limb(a, i) + Limb(b, i)])
BigAddBody(a, b) ==
  IF a = <<>> THEN b
  ELSE IF b = <<>> THEN a
  ELSE Carry(AddLimbs(a, b, Max2(Len(a), Len(b)) + 1))

\* The borrow from limb i of a difference whose limb differences are t
BorrowFrom(t, dec) ==
  IF dec = {} THEN 0 ELSE IF t[MaxOf(dec)] < 0 THEN 1 ELSE 0
BorrowIn(t, i) ==
  IF i = 1 THEN 0
  ELSE IF t[i - 1] # 0 THEN (IF t[i - 1] < 0 THEN 1 ELSE 0)
  ELSE BorrowFrom(t, {j \in 1..(i - 1) : t[j] # 0})

\* a - b, for a >= b
Borrow(t) == Norm(Tup([i \in 1..Len(t) |-> (t[i] - BorrowIn(t, i) + Base) % Base]))
BigSubBody(a, b) ==
  IF b = <<>> THEN a
  ELSE Borrow(Tup([i \in 1..Len(a) |-> a[i] - Limb(b, i)]))

\* -1, 0, 1 as a < b, a = b, a > b
CmpAt(a, b, i) == IF a[i] > b[i] THEN 1 ELSE -1
BigCmp(a, b) ==
  IF Len(a) > Len(b) THEN 1
  ELSE IF Len(a) < Len(b) THEN -1
  ELSE IF a = b THEN 0
  ELSE CmpAt(a, b, MaxOf({i \in 1..Len(a) : a[i] # b[i]}))

ShiftLimbs(a, k) == IF a = <<>> \/ k = 0 THEN a ELSE [i \in 1..k |-> 0] \o a

\* a * d, for 0 <= d <= Base: the low and the high halves of the limb products
BigMulSmallBody(a, d) ==
  IF a = <<>> \/ d = 0 THEN <<>>
  ELSE
  BigAdd(Tup([i \in 1..Len(a) |-> (a[i] * d) % Base]),
         <<0>> \o [i \in 1..Len(a) |-> (a[i] * d) \div Base])

\* b times the limbs lo..hi of a, each at its place: the rows are summed as a
\* balanced tree
RECURSIVE MulRows(_, _, _, _)
MulRows(a, b, lo, hi) ==
  IF lo = hi THEN ShiftLimbs(BigMulSmall(b, a[lo]), lo - 1)
  ELSE BigAdd(MulRows(a, b, lo, (lo + hi) \div 2),
              MulRows(a, b, ((lo + hi) \div 2) + 1, hi))

BigMulBody(a, b) ==
  IF a = <<>> \/ b = <<>> THEN <<>> ELSE MulRows(a, b, 1, Len(a))

\* a * 2^k: by p = 2^(k mod 15) within the limbs, then by whole limbs
ShlLimbs(a, p) ==
  Norm(Tup([i \in 1..(Len(a) + 1) |->
         ((Limb(a, i) * p) % Base) + ((Limb(a, i - 1) * p) \div Base)]))
BigShlBody(a, k) == ShiftLimbs(ShlLimbs(a, Pow2(k % LimbBits)), k \div LimbBits)

\* floor(a / 2^k): q whole limbs, then p = 2^(k mod 15), pc = 2^15 / p
ShrLimbs(a, q, p, pc) ==
  IF q >= Len(a) THEN <<>>
  ELSE Norm(Tup([i \in 1..(Len(a) - q) |->
              (a[i + q] \div p) + ((Limb(a, i + q + 1) % p) * pc)]))
BigShrBody(a, k) ==
  ShrLimbs(a, k \div LimbBits, Pow2(k % LimbBits), Pow2(LimbBits - (k % LimbBits)))

BitLen(a) ==
  IF a = <<>> THEN 0 ELSE (LimbBits * (Len(a) - 1)) + SmallBitLen(a[Len(a)])

IsOdd(a) == a # <<>> /\ a[1] % 2 = 1

(***************************************************************************)
(* Long division, one base-2^15 digit at a time.  The divisor b is scaled  *)
(* so that its top limb is at least 2^14; a digit is first estimated from  *)
(* the top limbs (never above the true digit) and then corrected upward.   *)
(***************************************************************************)
RECURSIVE Correct(_, _, _)
Correct(r, b, q) ==
  IF BigCmp(r, b) >= 0 THEN Correct(BigSub(r, b), b, q + 1)
  ELSE [q |-> q, r |-> r]

DivEstimate(rt, btop) == Min2(rt \div (btop + 1), Base - 1)
DivCorrect(r, b, qh) == Correct(BigSub(r, BigMulSmall(b, qh)), b, qh)
DivDigit(r, b) ==
  DivCorrect(r, b, DivEstimate(Limb(r, Len(b) + 1) * Base + Limb(r, Len(b)),
                               b[Len(b)]))

\* One more digit: st holds the quotient digits so far and the remainder, and
\* limb j of a is brought down (no limb for j < 1)
DivPush(st, d) == [q |-> <<d.q>> \o st.q, r |-> d.r]
DivStep(st, a, b, j) ==
  IF j < 1 THEN st ELSE DivPush(st, DivDigit(Norm(<<a[j]>> \o st.r), b))

\* The limbs i, i-1, ... of a brought down, four at a time; the tuple holds the
\* states in the order they are computed
RECURSIVE DivLoop(_, _, _, _)
DivNext(a, b, i, nx) == First(nx, DivLoop(a, b, i - 4, nx))
DivLoop(a, b, i, st) ==
  IF i < 1 THEN st
  ELSE LET s1 == DivStep(st, a, b, i)
           s2 == DivStep(s1, a, b, i - 1)
           s3 == DivStep(s2, a, b, i - 2)
           s4 == DivStep(s3, a, b, i - 3)
       IN  DivNext(a, b, i, <<s1, s2, s3, s4>>[4])

\* [q |-> floor(a / b), r |-> a - q*b], for b # 0
DivUnscale(qr, nsh) == First(qr, [q |-> Norm(qr.q), r |-> BigShr(qr.r, nsh)])
DivScaled(an, bn, nsh) ==
  DivUnscale(DivLoop(an, bn, Len(an), [q |-> <<>>, r |-> <<>>]), nsh)
DivScale(a, b, nsh) == DivScaled(BigShl(a, nsh), BigShl(b, nsh), nsh)
BigDivModBody(a, b) == DivScale(a, b, LimbBits - SmallBitLen(b[Len(b)]))

(***************************************************************************)
(* IEEE-754 binary64.  A float is [k, s, m, e]: kind "fin" (the value      *)
(* (-1)^s * m * 2^e, with m = 0, or 2^52 <= m < 2^53 and e <= 971, or      *)
(* m < 2^52 and e = -1074), "inf" (sign s) or "nan".                       *)
(***************************************************************************)
Precision == 53
EMin == -1074
EMax == 971

NaN == [k |-> "nan", s |-> 0, m |-> <<>>, e |-> 0]
Inf(s) == [k |-> "inf", s |-> s, m |-> <<>>, e |-> 0]
Zero(s) == [k |-> "fin", s |-> s, m |-> <<>>, e |-> 0]

IsNaN(x) == x.k = "nan"
IsInf(x) == x.k = "inf"
IsFinite(x) == x.k = "fin"
IsZero(x) == x.k = "fin" /\ x.m = <<>>

Xor(s, t) == IF s = t THEN 0 ELSE 1

\* num rounded to the nearest multiple of 2^drop, ties to even, divided by
\* 2^drop: q is the quotient rounded down, c compares the remainder with half
RoundUp(q, c) == IF c > 0 \/ (c = 0 /\ IsOdd(q)) THEN BigAdd(q, <<1>>) ELSE q
RoundRem(num, drop, q) ==
  RoundUp(q, BigCmp(BigSub(num, BigShl(q, drop)), BigShl(<<1>>, drop - 1)))
RoundShift(num, drop) == RoundRem(num, drop, BigShr(num, drop))

\* The binary64 nearest to (-1)^s * num * 2^e: e2 is the exponent of the last
\* place kept, m the significand there (2^53 when the rounding carried)
RoundPack(s, m, e) ==
  IF m = <<>> THEN Zero(s)
  ELSE IF e > EMax THEN Inf(s)
  ELSE [k |-> "fin", s |-> s, m |-> m, e |-> e]
RoundCarry(s, m, e2) ==
  IF BitLen(m) > Precision THEN RoundPack(s, BigShr(m, 1), e2 + 1)
  ELSE RoundPack(s, m, e2)
RoundAt(s, num, e, e2) ==
  RoundCarry(s, IF e2 <= e THEN BigShl(num, e - e2) ELSE RoundShift(num, e2 - e),
             e2)
RoundBody(s, num, e) ==
  IF num = <<>> THEN Zero(s)
  ELSE RoundAt(s, num, e, Max2(e + BitLen(num) - Precision, EMin))

FNeg(x) == IF IsNaN(x) THEN x ELSE [x EXCEPT !.s = 1 - x.s]
FAbs(x) == IF IsNaN(x) THEN x ELSE [x EXCEPT !.s = 0]

\* -1, 0, 1 as |x| < |y|, |x| = |y|, |x| > |y|, for finite x and y; tx and ty
\* are the exponents of their leading bits
CmpTop(x, y, tx, ty) ==
  IF tx > ty THEN 1
  ELSE IF tx < ty THEN -1
  ELSE IF x.e >= y.e THEN BigCmp(BigShl(x.m, x.e - y.e), y.m)
  ELSE BigCmp(x.m, BigShl(y.m, y.e - x.e))
CmpMag(x, y) ==
  IF x.m = <<>> \/ y.m = <<>>
  THEN (IF x.m = y.m THEN 0 ELSE IF x.m = <<>> THEN -1 ELSE 1)
  ELSE CmpTop(x, y, x.e + BitLen(x.m), y.e + BitLen(y.m))

\* x < y; false when either is a NaN
FLessBody(x, y) ==
  IF IsNaN(x) \/ IsNaN(y) THEN FALSE
  ELSE IF IsInf(x) THEN x.s = 1 /\ ~(IsInf(y) /\ y.s = 1)
  ELSE IF IsInf(y) THEN y.s = 0
  ELSE IF IsZero(x) /\ IsZero(y) THEN FALSE
  ELSE IF x.s # y.s THEN x.s = 1
  ELSE (IF x.s = 0 THEN 1 ELSE -1) * CmpMag(x, y) < 0

FLessEq(x, y) ==
  IF IsNaN(x) \/ IsNaN(y) THEN FALSE ELSE ~FLess(y, x)

\* The sum of two finite nonzero floats, x.e >= y.e, from their significands X
\* and Y at the common exponent e.  An addend more than 55 binary places below
\* the other is smaller than an eighth of its last place and is replaced by a
\* sticky unit there.
AddSigned(sx, sy, X, Y, e, c) ==
  IF c = 0 THEN Zero(0)
  ELSE IF c > 0 THEN Round(sx, BigSub(X, Y), e)
  ELSE Round(sy, BigSub(Y, X), e)
AddAligned(x, y, X, Y, e) ==
  IF x.s = y.s THEN Round(x.s, BigAdd(X, Y), e)
  ELSE AddSigned(x.s, y.s, X, Y, e, BigCmp(X, Y))
AddOrdered(x, y) ==
  IF x.e - y.e > 55 THEN AddAligned(x, y, BigShl(x.m, 3), <<1>>, x.e - 3)
  ELSE AddAligned(x, y, BigShl(x.m, x.e - y.e), y.m, y.e)

FAddBody(x, y) ==
  IF IsNaN(x) \/ IsNaN(y) THEN NaN
  ELSE IF IsInf(x) THEN (IF IsInf(y) /\ y.s # x.s THEN NaN ELSE x)
  ELSE IF IsInf(y) THEN y
  ELSE IF IsZero(x) /\ IsZero(y) THEN Zero(IF x.s = 1 /\ y.s = 1 THEN 1 ELSE 0)
  ELSE IF IsZero(x) THEN y
  ELSE IF IsZero(y) THEN x
  ELSE IF x.e >= y.e THEN AddOrdered(x, y)
  ELSE AddOrdered(y, x)

FSub(x, y) == FAdd(x, FNeg(y))

FMulBody(x, y) ==
  IF IsNaN(x) \/ IsNaN(y) THEN NaN
  ELSE IF IsInf(x) \/ IsInf(y)
  THEN (IF IsZero(x) \/ IsZero(y) THEN NaN ELSE Inf(Xor(x.s, y.s)))
  ELSE IF IsZero(x) \/ IsZero(y) THEN Zero(Xor(x.s, y.s))
  ELSE Round(Xor(x.s, y.s), BigMul(x.m, y.m), x.e + y.e)

\* (-1)^s * (a / b) * 2^e for naturals a, b # 0, correctly rounded: the quotient
\* of a * 2^k is taken to at least 60 bits and a nonzero remainder is kept as a
\* sticky bit.
QuotSticky(d) == BigAdd(BigShl(d.q, 1), IF d.r = <<>> THEN <<>> ELSE <<1>>)
RoundQuotAt(s, a, b, e, k) ==
  Round(s, QuotSticky(BigDivMod(BigShl(a, k), b)), e - k - 1)
RoundQuot(s, a, b, e) ==
  RoundQuotAt(s, a, b, e, Max2(0, 60 + BitLen(b) - BitLen(a)))

\* IEEE division (numpy scalars: x / 0 is an infinity or a NaN, not an error)
FDivBody(x, y) ==
  IF IsNaN(x) \/ IsNaN(y) THEN NaN
  ELSE IF IsInf(x) THEN (IF IsInf(y) THEN NaN ELSE Inf(Xor(x.s, y.s)))
  ELSE IF IsInf(y) THEN Zero(Xor(x.s, y.s))
  ELSE IF IsZero(y) THEN (IF IsZero(x) THEN NaN ELSE Inf(Xor(x.s, y.s)))
  ELSE IF IsZero(x) THEN Zero(Xor(x.s, y.s))
  ELSE RoundQuot(Xor(x.s, y.s), x.m, y.m, x.e - y.e)

\* 10^k, the exponent halved until the power is a limb
BigPow10Body(k) ==
  IF k <= 4 THEN <<(<<1, 10, 100, 1000, 10000>>)[k + 1]>>
  ELSE BigMul(BigPow10(k \div 2), BigPow10(k - (k \div 2)))

\* The natural with decimal digits ds[lo..hi], halved likewise at mid
RECURSIVE BigOfDigits(_, _, _)
DigitsSplit(ds, lo, mid, hi) ==
  BigAdd(BigMul(BigOfDigits(ds, lo, mid), BigPow10(hi - mid)),
         BigOfDigits(ds, mid + 1, hi))
BigOfDigits(ds, lo, hi) ==
  IF lo = hi THEN BigOfInt(ds[lo]) ELSE DigitsSplit(ds, lo, (lo + hi) \div 2, hi)

\* A decimal literal of the source: digits ds times 10^p10, sign s, converted
\* as Python converts it (to the nearest binary64).
DecOf(s, num, p10) ==
  IF num = <<>> THEN Zero(s)
  ELSE IF p10 >= 0 THEN Round(s, BigMul(num, BigPow10(p10)), 0)
  ELSE RoundQuot(s, num, BigPow10(-p10), 0)
DecBody(s, ds, p10) == DecOf(s, BigOfDigits(ds, 1, Len(ds)), p10)

\* float(k) for an integer k
FromIntBody(k) ==
  IF k >= 0 THEN Round(0, BigOfInt(k), 0) ELSE Round(1, BigOfInt(-k), 0)

(***************************************************************************)
(* x*y + z with one rounding (the fused multiply-add the C library's exp   *)
(* is compiled to).                                                        *)
(***************************************************************************)
Bin(s, m, e) == [k |-> "fin", s |-> s, m |-> m, e |-> e]

\* (-1)^sp * P * 2^pe + z for naturals P # 0 and finite z # 0, rounded once.
\* An addend that lies wholly more than two places below the last place of
\* the other is replaced by a sticky unit three places below it.
FmaAligned(sp, P, pe, z, tp, tz) ==
  IF tz <= pe - 3
  THEN AddAligned(Bin(sp, P, pe), z, BigShl(P, 3), <<1>>, pe - 3)
  ELSE IF tp <= z.e - 3
  THEN AddAligned(z, Bin(sp, P, pe), BigShl(z.m, 3), <<1>>, z.e - 3)
  ELSE IF pe >= z.e
  THEN AddAligned(Bin(sp, P, pe), z, BigShl(P, pe - z.e), z.m, z.e)
  ELSE AddAligned(Bin(sp, P, pe), z, P, BigShl(z.m, z.e - pe), pe)
FmaExact(sp, P, pe, z) ==
  First(P, FmaAligned(sp, P, pe, z, pe + BitLen(P), z.e + BitLen(z.m)))

FFmaBody(x, y, z) ==
  IF IsNaN(x) \/ IsNaN(y) \/ IsNaN(z) THEN NaN
  ELSE IF IsInf(x) \/ IsInf(y)
  THEN (IF IsZero(x) \/ IsZero(y) THEN NaN
        ELSE IF IsInf(z) /\ z.s # Xor(x.s, y.s) THEN NaN
        ELSE Inf(Xor(x.s, y.s)))
  ELSE IF IsInf(z) THEN z
  ELSE IF IsZero(x) \/ IsZero(y) THEN FAdd(Zero(Xor(x.s, y.s)), z)
  ELSE IF IsZero(z) THEN Round(Xor(x.s, y.s), BigMul(x.m, y.m), x.e + y.e)
  ELSE FmaExact(Xor(x.s, y.s), BigMul(x.m, y.m), x.e + y.e, z)

(***************************************************************************)
(* np.exp.  For a float64 scalar numpy calls the C library's exp, which    *)
(* is not correctly rounded; the model follows the library's algorithm     *)
(* (glibc 2.36, e_exp.c, as built with fused multiply-add) step by step:   *)
(* x = k*ln2/128 + r, exp(x) = 2^(k/128) * exp(r), with 2^(i/128) =         *)
(* H[i]*(1 + T[i]) from a table and exp(r) - 1 from a polynomial of degree *)
(* 5.  Overflow gives an infinity (numpy warns and goes on), underflow a   *)
(* subnormal or zero.                                                      *)
(***************************************************************************)
ExpN == 128

\* InvLn2N = 0x1.71547652b82fep0 * N, Shift = 0x1.8p52,
\* NegLn2hiN = -0x1.62e42fefa0000p-8, NegLn2loN = -0x1.cf79abc9e3b3ap-47
InvLn2N == Bin(0, <<766, 19031, 21789, 184>>, -45)
Shift == Bin(0, <<0, 0, 0, 192>>, 0)
NegLn2hiN == Bin(1, <<0, 32244, 14603, 177>>, -60)
NegLn2loN == Bin(1, <<15162, 31036, 24170, 231>>, -99)

\* The polynomial: 0x1.ffffffffffdbdp-2, 0x1.555555555543cp-3,
\* 0x1.55555cf172b91p-5, 0x1.1111167a4d017p-7
ExpC2 == Bin(0, <<32189, 32767, 32767, 255>>, -54)
ExpC3 == Bin(0, <<21564, 10922, 21845, 170>>, -55)
ExpC4 == Bin(0, <<11153, 7726, 21847, 170>>, -57)
ExpC5 == Bin(0, <<20503, 20297, 17477, 136>>, -59)

ExpOne == Bin(0, <<0, 0, 0, 128>>, -52)

\* The table: entry i + 1 holds the significand of H[i], the binary64 nearest
\* to 2^(i/128), and the tail T[i]
ExpTab ==
  <<<<<<0, 0, 0, 128>>, Zero(0)>>,
     <<<<13109, 21494, 22774, 128>>, Bin(0, <<16238, 13585, 27964, 217>>, -106)>>,
     <<<<97, 31983, 12904, 129>>, Bin(1, <<23645, 14769, 78, 139>>, -108)>>,
     <<<<32645, 20700, 3159, 130>>, Bin(1, <<26321, 8462, 31208, 130>>, -106)>>,
     <<<<1396, 9771, 26307, 130>>, Bin(0, <<30227, 27343, 18760, 230>>, -107)>>,
     <<<<30430, 21435, 16812, 131>>, Bin(1, <<3834, 18419, 14848, 222>>, -107)>>,
     <<<<7112, 12523, 7444, 132>>, Bin(0, <<18529, 17357, 23865, 135>>, -109)>>,
     <<<<29571, 5517, 30971, 132>>, Bin(0, <<21401, 13927, 3985, 133>>, -106)>>,
     <<<<2319, 23027, 21857, 133>>, Bin(0, <<31597, 15110, 27289, 188>>, -106)>>,
     <<<<18423, 22244, 12872, 134>>, Bin(0, <<28668, 9723, 21610, 245>>, -107)>>,
     <<<<20898, 26023, 4016, 135>>, Bin(0, <<7377, 24671, 30965, 245>>, -112)>>,
     <<<<21275, 24573, 28058, 135>>, Bin(1, <<28171, 4896, 3282, 208>>, -109)>>,
     <<<<23377, 8228, 19463, 136>>, Bin(1, <<15630, 21599, 22856, 170>>, -106)>>,
     <<<<12748, 216, 10999, 137>>, Bin(1, <<27221, 6301, 958, 132>>, -110)>>,
     <<<<11744, 23890, 2666, 138>>, Bin(1, <<29718, 29611, 9358, 142>>, -106)>>,
     <<<<3665, 4427, 27235, 138>>, Bin(0, <<21935, 21176, 20367, 134>>, -107)>>,
     <<<<20859, 30970, 19168, 139>>, Bin(1, <<4936, 21835, 27735, 128>>, -107)>>,
     <<<<3562, 28953, 11236, 140>>, Bin(1, <<12861, 11196, 32705, 248>>, -107)>>,
     <<<<19317, 22239, 3439, 141>>, Bin(0, <<21439, 32294, 9776, 220>>, -107)>>,
     <<<<23764, 2056, 28546, 141>>, Bin(1, <<27430, 27683, 26225, 182>>, -106)>>,
     <<<<14762, 25297, 21020, 142>>, Bin(0, <<12128, 31860, 13276, 215>>, -106)>>,
     <<<<22813, 17913, 13632, 143>>, Bin(1, <<14493, 5900, 7691, 255>>, -107)>>,
     <<<<3286, 4293, 6382, 144>>, Bin(0, <<17293, 2381, 15621, 211>>, -107)>>,
     <<<<23702, 8955, 32038, 144>>, Bin(0, <<1149, 25032, 26646, 131>>, -107)>>,
     <<<<25144, 23786, 25065, 145>>, Bin(0, <<10388, 18257, 15351, 180>>, -106)>>,
     <<<<9791, 8037, 18233, 146>>, Bin(0, <<18557, 25832, 30819, 186>>, -107)>>,
     <<<<31965, 19396, 11541, 147>>, Bin(0, <<26610, 12351, 7342, 130>>, -107)>>,
     <<<<25473, 17386, 4991, 148>>, Bin(1, <<2142, 32482, 25068, 181>>, -106)>>,
     <<<<24289, 27199, 31351, 148>>, Bin(0, <<11057, 23059, 24453, 151>>, -107)>>,
     <<<<22928, 8629, 25087, 149>>, Bin(1, <<16378, 13535, 1644, 233>>, -112)>>,
     <<<<779, 19912, 18966, 150>>, Bin(0, <<2740, 25624, 24073, 217>>, -107)>>,
     <<<<12118, 21116, 12990, 151>>, Bin(0, <<19343, 5021, 21066, 240>>, -109)>>,
     <<<<14101, 5219, 7160, 152>>, Bin(0, <<11190, 7009, 13781, 154>>, -107)>>,
     <<<<22577, 30873, 1475, 153>>, Bin(0, <<29772, 17752, 2055, 178>>, -107)>>,
     <<<<5887, 25800, 28706, 153>>, Bin(0, <<30794, 15271, 29925, 254>>, -107)>>,
     <<<<8177, 16165, 23317, 154>>, Bin(1, <<23300, 30492, 3584, 181>>, -107)>>,
     <<<<10699, 28277, 18076, 155>>, Bin(1, <<20584, 6294, 11191, 146>>, -106)>>,
     <<<<22630, 23051, 12985, 156>>, Bin(1, <<11662, 13986, 8160, 200>>, -106)>>,
     <<<<8183, 27083, 8044, 157>>, Bin(1, <<14034, 32040, 18336, 142>>, -108)>>,
     <<<<10469, 1575, 3255, 158>>, Bin(1, <<6933, 26524, 25702, 200>>, -106)>>,
     <<<<13346, 6180, 31385, 158>>, Bin(0, <<19565, 20052, 32034, 172>>, -107)>>,
     <<<<28, 2393, 26900, 159>>, Bin(1, <<27018, 29776, 18817, 152>>, -106)>>,
     <<<<11818, 17390, 22568, 160>>, Bin(1, <<2395, 4143, 7741, 197>>, -110)>>,
     <<<<10391, 12961, 18391, 161>>, Bin(1, <<6683, 20115, 12909, 225>>, -108)>>,
     <<<<2349, 16579, 14369, 162>>, Bin(0, <<11281, 16773, 4021, 155>>, -111)>>,
     <<<<87, 23098, 10503, 163>>, Bin(0, <<25839, 30220, 6180, 179>>, -106)>>,
     <<<<15568, 27522, 6794, 164>>, Bin(0, <<889, 13634, 13191, 246>>, -109)>>,
     <<<<21470, 25007, 3243, 165>>, Bin(0, <<4656, 32286, 32312, 159>>, -106)>>,
     <<<<10791, 10860, 32619, 165>>, Bin(0, <<12208, 30453, 17210, 180>>, -108)>>,
     <<<<23821, 13307, 29386, 166>>, Bin(0, <<24695, 22185, 30455, 152>>, -106)>>,
     <<<<11431, 27962, 26313, 167>>, Bin(1, <<9102, 227, 20688, 252>>, -107)>>,
     <<<<26178, 17822, 23402, 168>>, Bin(1, <<9033, 14631, 31539, 190>>, -107)>>,
     <<<<20354, 11578, 20653, 169>>, Bin(1, <<14431, 31262, 31514, 198>>, -108)>>,
     <<<<4623, 5307, 18067, 170>>, Bin(1, <<23798, 22774, 18715, 176>>, -107)>>,
     <<<<10202, 28010, 15644, 171>>, Bin(0, <<22414, 12795, 21524, 153>>, -106)>>,
     <<<<18429, 10543, 13387, 172>>, Bin(0, <<6917, 24341, 25308, 220>>, -108)>>,
     <<<<21545, 14992, 11295, 173>>, Bin(0, <<21513, 17464, 3975, 131>>, -106)>>,
     <<<<18103, 5298, 9370, 174>>, Bin(0, <<18154, 8243, 7701, 166>>, -112)>>,
     <<<<8520, 11098, 7612, 175>>, Bin(0, <<16437, 22217, 19352, 161>>, -106)>>,
     <<<<23561, 29421, 6022, 176>>, Bin(1, <<30367, 17202, 4393, 231>>, -107)>>,
     <<<<21893, 24692, 4602, 177>>, Bin(1, <<19880, 30686, 20244, 225>>, -107)>>,
     <<<<17184, 27033, 3352, 178>>, Bin(1, <<27054, 4695, 19938, 162>>, -107)>>,
     <<<<8741, 1194, 2274, 179>>, Bin(1, <<22616, 28844, 15221, 158>>, -106)>>,
     <<<<10611, 10393, 1367, 180>>, Bin(0, <<6500, 252, 17066, 184>>, -110)>>,
     <<<<15309, 19710, 633, 181>>, Bin(1, <<8744, 32444, 20414, 157>>, -106)>>,
     <<<<23231, 27159, 73, 182>>, Bin(1, <<14722, 3689, 19126, 208>>, -109)>>,
     <<<<6703, 30922, 32456, 182>>, Bin(1, <<10734, 28891, 8126, 155>>, -109)>>,
     <<<<5252, 29347, 32247, 183>>, Bin(1, <<2129, 10689, 28917, 134>>, -107)>>,
     <<<<24436, 20952, 32215, 184>>, Bin(1, <<16079, 31924, 32145, 192>>, -108)>>,
     <<<<372, 4427, 32361, 185>>, Bin(1, <<32176, 278, 14635, 183>>, -107)>>,
     <<<<26569, 11396, 32685, 186>>, Bin(1, <<26250, 15531, 25800, 176>>, -107)>>,
     <<<<23871, 8124, 421, 188>>, Bin(0, <<21715, 15379, 29485, 132>>, -106)>>,
     <<<<391, 26582, 1105, 189>>, Bin(1, <<9501, 29339, 19314, 217>>, -108)>>,
     <<<<16690, 609, 1972, 190>>, Bin(0, <<16491, 10447, 13301, 167>>, -106)>>,
     <<<<20066, 28062, 3020, 191>>, Bin(0, <<27733, 22444, 12166, 175>>, -109)>>,
     <<<<6674, 10364, 4253, 192>>, Bin(1, <<20290, 24423, 1812, 197>>, -107)>>,
     <<<<19987, 12953, 5670, 193>>, Bin(1, <<14132, 25206, 9947, 155>>, -106)>>,
     <<<<18349, 3143, 7273, 194>>, Bin(1, <<32542, 29747, 31248, 130>>, -107)>>,
     <<<<4845, 13961, 9062, 195>>, Bin(1, <<22382, 12516, 20803, 166>>, -106)>>,
     <<<<26265, 13076, 11039, 196>>, Bin(0, <<2560, 13853, 13725, 133>>, -106)>>,
     <<<<8411, 1109, 13205, 197>>, Bin(0, <<27316, 993, 23743, 237>>, -107)>>,
     <<<<17548, 11626, 15560, 198>>, Bin(1, <<26623, 14731, 22914, 173>>, -109)>>,
     <<<<30518, 12842, 18106, 199>>, Bin(0, <<24388, 13286, 23053, 223>>, -108)>>,
     <<<<32710, 5923, 20844, 200>>, Bin(1, <<15747, 20028, 9342, 152>>, -106)>>,
     <<<<17893, 24987, 23774, 201>>, Bin(1, <<7721, 5848, 9954, 237>>, -110)>>,
     <<<<21007, 6032, 26899, 202>>, Bin(1, <<14681, 31009, 4069, 225>>, -109)>>,
     <<<<20048, 16316, 30218, 203>>, Bin(1, <<31146, 17897, 3340, 146>>, -106)>>,
     <<<<1978, 24980, 965, 205>>, Bin(1, <<3659, 11981, 10675, 174>>, -107)>>,
     <<<<28816, 1351, 4678, 206>>, Bin(0, <<20007, 22307, 16368, 141>>, -108)>>,
     <<<<8995, 13254, 8588, 207>>, Bin(0, <<29627, 16916, 18647, 238>>, -109)>>,
     <<<<25957, 30395, 12697, 208>>, Bin(1, <<8803, 17604, 5136, 190>>, -107)>>,
     <<<<11571, 22676, 17007, 209>>, Bin(0, <<12757, 18372, 29211, 216>>, -107)>>,
     <<<<9565, 25724, 21518, 210>>, Bin(1, <<15125, 10105, 28487, 141>>, -106)>>,
     <<<<13144, 9825, 26232, 211>>, Bin(0, <<12754, 14812, 12486, 134>>, -106)>>,
     <<<<32191, 10995, 31149, 212>>, Bin(0, <<23219, 23782, 9745, 163>>, -107)>>,
     <<<<29562, 32679, 3502, 214>>, Bin(1, <<7604, 12061, 32566, 150>>, -107)>>,
     <<<<21421, 12981, 8830, 215>>, Bin(0, <<13191, 9622, 27102, 224>>, -107)>>,
     <<<<13926, 21275, 14364, 216>>, Bin(1, <<23034, 5539, 28221, 131>>, -106)>>,
     <<<<5627, 28830, 20106, 217>>, Bin(1, <<11962, 11705, 3941, 174>>, -110)>>,
     <<<<22842, 7114, 26058, 218>>, Bin(1, <<30272, 31565, 4152, 133>>, -106)>>,
     <<<<24135, 26102, 32219, 219>>, Bin(1, <<4916, 29019, 23504, 198>>, -109)>>,
     <<<<1610, 24898, 5824, 221>>, Bin(1, <<2613, 22193, 15241, 143>>, -106)>>,
     <<<<16850, 8343, 12410, 222>>, Bin(0, <<24013, 5311, 32604, 167>>, -108)>>,
     <<<<7689, 14254, 19209, 223>>, Bin(1, <<6316, 29989, 30703, 141>>, -106)>>,
     <<<<21148, 15114, 26223, 224>>, Bin(0, <<3251, 24926, 15032, 155>>, -108)>>,
     <<<<20602, 16383, 685, 226>>, Bin(0, <<32148, 14655, 3273, 247>>, -107)>>,
     <<<<20811, 23727, 8132, 227>>, Bin(0, <<22956, 8722, 575, 167>>, -107)>>,
     <<<<26549, 10253, 15798, 228>>, Bin(0, <<6759, 28828, 14012, 158>>, -109)>>,
     <<<<4201, 14815, 23683, 229>>, Bin(0, <<6504, 22820, 11441, 187>>, -109)>>,
     <<<<17402, 10939, 31789, 230>>, Bin(1, <<13778, 1945, 10338, 132>>, -107)>>,
     <<<<2428, 5135, 7349, 232>>, Bin(1, <<31343, 32767, 13684, 253>>, -107)>>,
     <<<<2546, 4123, 15900, 233>>, Bin(1, <<10569, 28907, 14008, 128>>, -106)>>,
     <<<<9351, 14839, 24675, 234>>, Bin(0, <<1959, 19578, 3606, 165>>, -108)>>,
     <<<<920, 11667, 908, 236>>, Bin(1, <<8719, 16512, 18040, 148>>, -107)>>,
     <<<<12933, 1974, 10136, 237>>, Bin(0, <<4780, 11139, 26947, 242>>, -107)>>,
     <<<<13408, 26115, 19591, 238>>, Bin(0, <<27467, 22530, 26982, 161>>, -107)>>,
     <<<<7007, 26359, 29276, 239>>, Bin(1, <<15903, 3944, 21636, 150>>, -107)>>,
     <<<<8489, 10731, 6424, 241>>, Bin(1, <<3529, 30350, 10980, 201>>, -107)>>,
     <<<<16374, 20246, 16571, 242>>, Bin(0, <<2259, 16501, 22545, 165>>, -108)>>,
     <<<<19587, 30606, 26951, 243>>, Bin(0, <<29297, 9018, 6065, 158>>, -107)>>,
     <<<<4314, 17737, 4798, 245>>, Bin(1, <<4592, 8103, 23626, 255>>, -107)>>,
     <<<<26609, 23324, 15648, 246>>, Bin(1, <<29821, 17478, 14947, 237>>, -107)>>,
     <<<<23079, 23746, 26735, 247>>, Bin(0, <<8200, 852, 3825, 246>>, -107)>>,
     <<<<14999, 28375, 5292, 249>>, Bin(0, <<27442, 1875, 11859, 161>>, -107)>>,
     <<<<17728, 14044, 16857, 250>>, Bin(0, <<1518, 25507, 4772, 211>>, -107)>>,
     <<<<15892, 23353, 28662, 251>>, Bin(1, <<25581, 18551, 24299, 241>>, -107)>>,
     <<<<4312, 829, 7942, 253>>, Bin(0, <<19869, 6947, 9453, 188>>, -108)>>,
     <<<<29169, 22302, 20232, 254>>, Bin(0, <<19593, 705, 5893, 152>>, -110)>>>>

\* k of kd = x*InvLn2N + Shift: the low 30 bits of the significand of kd, as a
\* signed number (|k| < 2^18 for |x| < 1024)
Signed30(low) == IF low < 536870912 THEN low ELSE low - 1073741824
ExpK(kd) == Signed30(Limb(kd.m, 1) + Base * Limb(kd.m, 2))

\* scale, the float with the bits T[idx + 1] + top (+ bias << 52): H[k % N]
\* times 2^(k div N + bias)
ExpIndex(k) == k % ExpN
ExpTop(k) == (k - ExpIndex(k)) \div ExpN
ExpScaleOf(k, bias) == Bin(0, ExpTab[ExpIndex(k) + 1][1], ExpTop(k) + bias - 52)
ExpTail(k) == ExpTab[ExpIndex(k) + 1][2]

\* r = x + kd*NegLn2hiN + kd*NegLn2loN, kd the float of k
ExpR(x, kd) == FFma(kd, NegLn2loN, FFma(kd, NegLn2hiN, x))

\* tmp = tail + r + r2*(C2 + r*C3) + r2*r2*(C4 + r*C5)
ExpTmp(r, r2, tail) ==
  FFma(FMul(r2, r2), FFma(r, ExpC5, ExpC4), FFma(FFma(r, ExpC3, ExpC2), r2, FAdd(r, tail)))

\* specialcase, k >= 0: 0x1p1009 * (scale + scale*tmp), scale lowered by 2^1009
ExpScaledUp(scale, tmp) ==
  FMul(FFma(scale, tmp, scale), Bin(0, <<0, 0, 0, 128>>, 1009 - 52))

\* specialcase, k < 0, scale raised by 2^1022: y = scale + scale*tmp, rounded to
\* the precision it has in the subnormal range when it is below 1, times
\* 0x1p-1022
ExpRounded(hi, lo) == FSub(FAdd(lo, hi), ExpOne)
ExpLow(hi, y, lo) == ExpRounded(hi, FAdd(FAdd(FSub(ExpOne, hi), y), lo))
ExpBelowOne(scale, st, y) ==
  ExpLow(FAdd(y, ExpOne), y, FAdd(FSub(scale, y), st))
ExpPositive(y) == IF IsZero(y) THEN Zero(0) ELSE y
ExpSmall(scale, st, y) ==
  FMul(IF FLess(y, ExpOne) THEN ExpPositive(ExpBelowOne(scale, st, y)) ELSE y,
       Bin(0, <<0, 0, 0, 128>>, -1022 - 52))
ExpProduct(scale, st) == ExpSmall(scale, st, FAdd(scale, st))
ExpScaledDown(scale, tmp) == ExpProduct(scale, FMul(tmp, scale))

SpecialCase(tmp, k) ==
  IF k >= 0 THEN ExpScaledUp(ExpScaleOf(k, -1009), tmp)
  ELSE ExpScaledDown(ExpScaleOf(k, 1022), tmp)

\* scale + scale*tmp
ExpResult(scale, tmp) == FFma(scale, tmp, scale)

\* exp(x) for 2^-54 <= |x| < 1024; special when |x| >= 512
ExpTable(k, tmp, special) ==
  IF special THEN SpecialCase(tmp, k) ELSE ExpResult(ExpScaleOf(k, 0), tmp)
ExpPoly(r, k, special) == ExpTable(k, ExpTmp(r, FMul(r, r), ExpTail(k)), special)
ExpReduced(x, kd, special) ==
  First(kd, ExpPoly(ExpR(x, FSub(kd, Shift)), ExpK(kd), special))

\* top is the exponent of the leading bit of x, plus one
ExpRange(x, top) ==
  IF top <= -54 THEN FAdd(ExpOne, x)
  ELSE IF top >= 11 THEN (IF x.s = 0 THEN Inf(0) ELSE Zero(0))
  ELSE ExpReduced(x, FFma(x, InvLn2N, Shift), top >= 10)

FExpBody(x) ==
  IF IsNaN(x) THEN NaN
  ELSE IF IsInf(x) THEN (IF x.s = 0 THEN x ELSE Zero(0))
  ELSE IF IsZero(x) THEN FAdd(ExpOne, x)
  ELSE ExpRange(x, x.e + BitLen(x.m))

\* The definition that op names, applied to the arguments x, which are
\* evaluated first
Ev(op, x) ==
  IF x = <<>> THEN x
  ELSE CASE op = "BigAdd" -> BigAddBody(x[1], x[2])
         [] op = "BigSub" -> BigSubBody(x[1], x[2])
         [] op = "BigShl" -> BigShlBody(x[1], x[2])
         [] op = "BigShr" -> BigShrBody(x[1], x[2])
         [] op = "BigMulSmall" -> BigMulSmallBody(x[1], x[2])
         [] op = "BigMul" -> BigMulBody(x[1], x[2])
         [] op = "Round" -> RoundBody(x[1], x[2], x[3])
         [] op = "BigDivMod" -> BigDivModBody(x[1], x[2])
         [] op = "FAdd" -> FAddBody(x[1], x[2])
         [] op = "FMul" -> FMulBody(x[1], x[2])
         [] op = "FDiv" -> FDivBody(x[1], x[2])
         [] op = "FLess" -> FLessBody(x[1], x[2])
         [] op = "FFma" -> FFmaBody(x[1], x[2], x[3])
         [] op = "FExp" -> FExpBody(x[1])
         [] op = "BigPow10" -> BigPow10Body(x[1])
         [] op = "Dec" -> DecBody(x[1], x[2], x[3])
         [] op = "FromInt" -> FromIntBody(x[1])

(***************************************************************************)
(* The program.  Module constants of solarcell.py (lines 5-17), as the     *)
(* binary64 values Python reads from the decimal literals.                 *)
(***************************************************************************)
Voc == Dec(0, <<1, 0, 0, 8, 3, 1, 2>>, -6)
Jsc == Dec(0, <<3, 0, 5, 2, 6, 3, 8, 7, 8, 8>>, -8)
Vt  == Dec(0, <<2, 5, 8, 5>>, -5)
n   == Dec(0, <<1, 2>>, -1)
J0  == Dec(0, <<1>>, -12)
Rs  == Dec(0, <<1>>, -3)
Rsh == FromInt(10000)

\* range(100) of the solver's loop, and the step tolerance 1e-10 of its test
MaxIter == 100
Tol == Dec(0, <<1>>, -10)
One == FromInt(1)

\* A local that has not been assigned yet (f, df, J_new before iteration 1)
Unset == [k |-> "unset", s |-> 0, m |-> <<>>, e |-> 0]

\* The arguments of one call; the defaults are the module constants
Args(V, aJsc, aJ0, an, aRs, aRsh) ==
  [V |-> V, Jsc |-> aJsc, J0 |-> aJ0, n |-> an, Rs |-> aRs, Rsh |-> aRsh]
DefaultArgs(V) == Args(V, Jsc, J0, n, Rs, Rsh)

\* Element i (from 0) of np.linspace(start, stop, num): i * step + start with
\* step = (stop - start) / (num - 1), and the last element set to stop itself
LinSpace(start, stop, num, i) ==
  IF i = num - 1 THEN stop
  ELSE FAdd(FMul(FromInt(i), FDiv(FSub(stop, start), FromInt(num - 1))), start)

\* V_range = np.linspace(-0.1, Voc + 0.05, 500)
NumPoints == 500
V_range(i) ==
  LinSpace(Dec(1, <<1>>, -1), FAdd(Voc, Dec(0, <<5>>, -2)), NumPoints, i)

\* Python's float division raises ZeroDivisionError on a zero divisor.  The
\* divisors of lines 30 and 32 that are Python floats are n*Vt and Rsh.
RaisesZeroDivision(a) == IsZero(FMul(a.n, Vt)) \/ IsZero(a.Rsh)

\* (V + J_guess*Rs)/(n*Vt), the argument of np.exp in lines 30 and 32
ExpArg(J, a) == FDiv(FAdd(a.V, FMul(J, a.Rs)), FMul(a.n, Vt))

\* The residual with the diode term J0*exp(..) in place of J0*(exp(..) - 1)
ResidualOfNoMinusOne(J, a, ex) ==
  First(ex, FAdd(FAdd(FSub(J, a.Jsc), FMul(a.J0, ex)),
                 FDiv(FAdd(a.V, FMul(J, a.Rs)), a.Rsh)))

\* Line 30:
\* f = J_guess - Jsc + J0*(np.exp((V + J_guess*Rs)/(n*Vt)) - 1) + (V + J_guess*Rs)/Rsh
\* (ex is the value np.exp returns)
ResidualOf(J, a, ex) ==
  First(ex, FAdd(FAdd(FSub(J, a.Jsc), FMul(a.J0, FSub(ex, One))),
                 FDiv(FAdd(a.V, FMul(J, a.Rs)), a.Rsh)))
Residual(J, a) == ResidualOf(J, a, FExp(ExpArg(J, a)))

\* Line 32: df = 1 + (J0*Rs/(n*Vt))*np.exp((V + J_guess*Rs)/(n*Vt)) + Rs/Rsh
DerivativeOf(J, a, ex) ==
  First(ex, FAdd(FAdd(One, FMul(FDiv(FMul(a.J0, a.Rs), FMul(a.n, Vt)), ex)),
                 FDiv(a.Rs, a.Rsh)))
Derivative(J, a) == DerivativeOf(J, a, FExp(ExpArg(J, a)))

\* Line 34: J_new = J_guess - f/df
NewtonStep(J, fv, dfv) == FSub(J, FDiv(fv, dfv))

\* Line 36: abs(J_new - J_guess) < 1e-10 (False when the difference is NaN)
Converged(Jn, J) == FLess(FAbs(FSub(Jn, J)), Tol)

\* A loop that admits one body more
InRangeOffByOne(i) == i <= MaxIter

\* A loop of five bodies
InRangeFive(i) == i < 5

\* for _ in range(100), line 28: the body runs while fewer than 100 have run
InRange(i) == i < MaxIter

(***************************************************************************)
(* Inputs.  The sweep of line 44 calls the solver with the module's        *)
(* parameters on the 500 points of V_range; the model takes every          *)
(* Stride-th point and the last one.  The other inputs are direct calls    *)
(* of the function, which the program itself does not make.                *)
(***************************************************************************)
Stride == 10
MaxCalls == 3

SweepIdx == {i \in 0..(NumPoints - 1) : i % Stride = 0} \cup {NumPoints - 1}
ReferenceInputs == {DefaultArgs(V_range(i)) : i \in SweepIdx}

\* The open-circuit voltage the program marks on its plot (line 58)
VocInput == DefaultArgs(Voc)

\* Voltages far above the operating range: 5 V and 25 V
FarInputs ==
  { DefaultArgs(FromInt(5)), DefaultArgs(FromInt(25)),
    Args(FromInt(25), Jsc, J0, n, Zero(0), Rsh) }

\* Parameters outside the data model: negative or zero n and Rsh, at 0.5 V
Half == Dec(0, <<5>>, -1)
InvalidInputs ==
  { Args(Half, Jsc, J0, FNeg(n), Rs, Rsh), Args(Half, Jsc, J0, n, Rs, FNeg(Rsh)),
    Args(Half, Jsc, J0, Zero(0), Rs, Rsh), Args(Half, Jsc, J0, n, Rs, Zero(0)) }

\* Short circuit with no series resistance: V = 0 and Rs = 0
TinyN == Dec(0, <<5>>, -324)
ShortInputs ==
  { Args(Zero(0), j, j0, an, Zero(0), r) :
      j \in {Jsc, Zero(0), FromInt(-5)}, j0 \in {J0, Zero(0), Dec(0, <<1>>, -3)},
      an \in {n, FromInt(2)}, r \in {Rsh, One} }
  \cup { Args(Zero(0), Jsc, J0, TinyN, Zero(0), Rsh),
         Args(Zero(0), Jsc, Inf(0), n, Zero(0), Rsh),
         Args(Zero(0), Inf(0), J0, n, Zero(0), Rsh) }

Inputs == ReferenceInputs \cup {VocInput} \cup FarInputs \cup InvalidInputs
            \cup ShortInputs

\* The first three calls line 44 makes: V_range[0], V_range[1], V_range[2] with
\* the module's parameters
SweepCalls == {DefaultArgs(V_range(i)) : i \in {0, 1, 2}}

\* Direct calls of the function with parameters of their own: V = 0 with
\* Rs = 0, and V = 0.5 with Rsh = 0 (which raises ZeroDivisionError)
DirectCalls ==
  { Args(Zero(0), Jsc, J0, n, Zero(0), Rsh), Args(Half, Jsc, J0, n, Rs, Zero(0)) }

\* The calls a run of several calls is made of
CallPool == SweepCalls \cup DirectCalls

(***************************************************************************)
(* State.  pc is the position of the interpreter: "idle" outside a call,   *)
(* "loop" at the head of the for loop, "break" after line 37, "returned"   *)
(* after line 40, "raised" once an exception left the function.            *)
(* J_guess, J_new, f, df are the function's locals; iter counts the loop   *)
(* bodies begun in this call.  History, for stating properties: J_prev is  *)
(* the J_guess the last body read, converged whether it took the break,    *)
(* result the value returned, calls the number of calls so far, history    *)
(* the <<arguments, result>> pairs of the calls that returned, in order.   *)
(***************************************************************************)
VARIABLES pc, args, J_guess, J_new, J_prev, f, df, iter, converged, result,
          calls, history

vars == <<pc, args, J_guess, J_new, J_prev, f, df, iter, converged, result,
          calls, history>>

NoArgs == Args(Unset, Unset, Unset, Unset, Unset, Unset)

Init ==
  /\ pc = "idle"
  /\ args = NoArgs
  /\ J_guess = Unset /\ J_new = Unset /\ J_prev = Unset
  /\ f = Unset /\ df = Unset
  /\ iter = 0
  /\ converged = FALSE
  /\ result = Unset
  /\ calls = 0
  /\ history = <<>>

\* A call that starts from the iterate the call before it left behind
CallWarmStart(a) ==
  /\ pc \in {"idle", "returned"}
  /\ pc' = "loop"
  /\ args' = a
  /\ J_guess' = IF J_new = Unset THEN a.Jsc ELSE J_new
  /\ J_new' = Unset
  /\ J_prev' = Unset
  /\ f' = Unset
  /\ df' = Unset
  /\ iter' = 0
  /\ converged' = FALSE
  /\ result' = Unset
  /\ calls' = calls + 1
  /\ UNCHANGED history

\* Lines 20-26: a call binds the arguments and sets J_guess = Jsc
Call(a) ==
  /\ pc \in {"idle", "returned"}
  /\ pc' = "loop"
  /\ args' = a
  /\ J_guess' = a.Jsc
  /\ J_new' = Unset /\ J_prev' = Unset /\ f' = Unset /\ df' = Unset
  /\ iter' = 0
  /\ converged' = FALSE
  /\ result' = Unset
  /\ calls' = calls + 1
  /\ UNCHANGED history

\* Lines 28-38: one body of the loop, up to the break or the next J_guess
Iterate ==
  /\ pc = "loop"
  /\ InRange(iter)
  /\ ~RaisesZeroDivision(args)
  /\ \E fv \in {Residual(J_guess, args)}, dfv \in {Derivative(J_guess, args)} :
       \E Jn \in {NewtonStep(J_guess, fv, dfv)} :
         \E c \in {Converged(Jn, J_guess)} :
            /\ f' = fv
            /\ df' = dfv
            /\ J_new' = Jn
            /\ J_prev' = J_guess
            /\ converged' = c
            /\ J_guess' = IF c THEN J_guess ELSE Jn
            /\ pc' = IF c THEN "break" ELSE "loop"
  /\ iter' = iter + 1
  /\ UNCHANGED <<args, result, calls, history>>

\* Lines 30/32 with n*Vt = 0 or Rsh = 0: ZeroDivisionError leaves the function
Raise ==
  /\ pc = "loop"
  /\ InRange(iter)
  /\ RaisesZeroDivision(args)
  /\ pc' = "raised"
  /\ iter' = iter + 1
  /\ UNCHANGED <<args, J_guess, J_new, J_prev, f, df, converged, result,
                 calls, history>>

\* A return of the iterate the last body started from
ReturnGuess ==
  /\ (pc = "break" \/ (pc = "loop" /\ ~InRange(iter)))
  /\ pc' = "returned"
  /\ result' = J_guess
  /\ history' = Append(history, <<args, J_guess>>)
  /\ UNCHANGED <<args, J_guess, J_new, J_prev, f, df, iter, converged, calls>>

\* Line 40: return J_new, after the break or once range(100) is exhausted
Return ==
  /\ pc = "break" \/ (pc = "loop" /\ ~InRange(iter))
  /\ pc' = "returned"
  /\ result' = J_new
  /\ history' = Append(history, <<args, J_new>>)
  /\ UNCHANGED <<args, J_guess, J_new, J_prev, f, df, iter, converged, calls>>

\* One direct call with any of the inputs
Next ==
  \/ \E a \in Inputs : calls = 0 /\ Call(a)
  \/ Iterate
  \/ Raise
  \/ Return

Spec == Init /\ [][Next]_vars

\* The interpreter keeps running a call it has begun.  Advance is what a step
\* of a running call does to the position and the iteration count: Iterate,
\* Raise and Return each change pc or iter this way, one of them is enabled
\* whenever the call is running, and no other step changes pc or iter while
\* it runs.  Weak fairness of Advance on <<pc, iter>> is therefore weak
\* fairness of the running call's steps.
Running == pc \in {"loop", "break"}
Advance ==
  /\ Running
  /\ pc' \in {"loop", "break", "raised", "returned"}
  /\ iter' \in {iter, iter + 1}
LiveSpec == Spec /\ WF_<<pc, iter>>(Advance)

\* Up to MaxCalls calls one after the other, each any call of the pool: the
\* calls of the sweep in the order of line 44 (V_range[0], V_range[1],
\* V_range[2]), in any other order, repeated, and with direct calls before or
\* between them.  A call that raised is followed by no other.
CallsNext ==
  \/ \E a \in CallPool : calls < MaxCalls /\ Call(a)
  \/ Iterate
  \/ Raise
  \/ Return

CallsSpec == Init /\ [][CallsNext]_vars

(***************************************************************************)
(* Properties.                                                             *)
(***************************************************************************)
IsPositive(x) == FLess(Zero(0), x)
InCall == pc # "idle"

\* C1, as stated: for every voltage and every parameter set a call makes at
\* most 100 Newton updates.  The count of loop bodies never exceeds 100; every
\* body makes an update and ends in the break exactly when its step
\* |J_new - J_guess| is below 1e-10; after the break nothing but the return
\* happens; a call that has stopped has either met the tolerance or run exactly
\* 100 bodies; and every call that has begun returns.
C1_EveryParameterSet ==
  /\ [](iter <= MaxIter)
  /\ [][(pc = "loop" /\ iter' = iter + 1)
          => /\ pc' # "raised"
             /\ (pc' = "break") <=> Converged(J_new', J_guess)]_vars
  /\ [][pc = "break" => (pc' = "returned" /\ iter' = iter)]_vars
  /\ [](pc \in {"returned", "raised"} => (converged \/ iter = MaxIter))
  /\ ((pc = "loop") ~> (pc = "returned"))

\* C1, amended: the exception is a third way for a call to stop.  The count of
\* loop bodies never exceeds 100.  With n*Vt or Rsh zero the first body raises
\* ZeroDivisionError before any update: the call ends raised, in body 1, with
\* J_new unbound, and returns nothing.  With n*Vt and Rsh nonzero no body
\* raises, a body ends in the break exactly when its step |J_new - J_guess| is
\* below 1e-10, the call returns, and it returns without the break only after
\* exactly 100 bodies.  After the break nothing but the return happens.
C1_AtMostHundredUpdates ==
  /\ [](iter <= MaxIter)
  /\ [][(pc = "loop" /\ iter' = iter + 1)
          => IF RaisesZeroDivision(args)
               THEN pc' = "raised" /\ iter = 0 /\ J_new' = Unset
               ELSE /\ pc' # "raised"
                    /\ (pc' = "break") <=> Converged(J_new', J_guess)]_vars
  /\ [][pc = "break" => (pc' = "returned" /\ iter' = iter)]_vars
  /\ [](pc \in {"returned", "raised"} =>
          IF RaisesZeroDivision(args)
            THEN pc = "raised" /\ iter = 1 /\ J_new = Unset /\ result = Unset
            ELSE pc = "returned" /\ (converged \/ iter = MaxIter))
  /\ ((pc = "loop" /\ ~RaisesZeroDivision(args)) ~> (pc = "returned"))
  /\ ((pc = "loop" /\ RaisesZeroDivision(args)) ~> (pc = "raised"))

C1_CapReached == pc = "returned" /\ iter = MaxIter /\ ~converged

\* C2: a value returned without convergence within the 100 iterations is
\* marked as such (here, at the least, by not being a finite number).
C2_NonConvergenceSurfaced ==
  pc = "returned" => (converged \/ ~IsFinite(result))

\* C3: with a non-positive Vt, Rsh or n the call is rejected before the first
\* iteration: f and df are never evaluated and nothing is returned.
NonPositiveParams(a) ==
  ~IsPositive(Vt) \/ ~IsPositive(a.Rsh) \/ ~IsPositive(a.n)
C3_RejectedBeforeIterating ==
  (InCall /\ NonPositiveParams(args))
    => (f = Unset /\ df = Unset /\ pc # "returned")

\* C4: the solver never returns an infinite or NaN current density.
C4_FiniteResult == pc = "returned" => IsFinite(result)

\* C5: the solver keeps nothing from one call to the next.  Every call begins
\* with J_guess = Jsc, no iteration made and nothing computed, and among the
\* calls that have returned, in whatever order they were made, equal
\* arguments gave equal results.
C5_PureFunction ==
  /\ (pc = "loop" /\ iter = 0)
       => (J_guess = args.Jsc /\ J_new = Unset /\ f = Unset /\ df = Unset)
  /\ \A i, j \in 1..Len(history) :
       history[i][1] = history[j][1] => history[i][2] = history[j][2]

C5_RepeatedCall ==
  /\ Len(history) >= 3
  /\ history[1][1] = history[3][1]
  /\ history[2][1] # history[1][1]
  /\ history[2][2] # history[1][2]

\* C6: with the module's parameters and V in [-0.1, Voc + 0.05] the call
\* leaves the loop by the break: it never raises, never exhausts range(100),
\* and returns converged.
ReferenceParams(a) ==
  a.Jsc = Jsc /\ a.J0 = J0 /\ a.n = n /\ a.Rs = Rs /\ a.Rsh = Rsh
InSweepRange(a) ==
  /\ ReferenceParams(a)
  /\ FLessEq(V_range(0), a.V)
  /\ FLessEq(a.V, V_range(NumPoints - 1))
C6_ReferenceSweepConverges ==
  (InCall /\ InSweepRange(args))
    => /\ pc # "raised"
       /\ pc = "loop" => InRange(iter)
       /\ pc = "returned" => converged

C6_SweepPointSolved ==
  /\ pc = "returned"
  /\ InSweepRange(args)
  /\ args.V # Voc
  /\ converged
  /\ iter >= 5

\* C7: the current solved at V = Voc with the module's parameters is zero to
\* within 1 (in the unit of Jsc), a tolerance wider than any small one.
C7_ZeroAtVoc ==
  (pc = "returned" /\ args = VocInput) => FLess(FAbs(result), One)

\* C8 (as stated): at V = 0 with Rs = 0, positive Rsh, n and Vt and any J0, the
\* first body finds f = 0, the step is zero, the test succeeds in iteration 1
\* and the value returned is the Jsc argument.
ShortCircuit(a) ==
  /\ IsZero(a.V) /\ IsZero(a.Rs)
  /\ IsPositive(a.Rsh) /\ IsPositive(a.n) /\ IsPositive(Vt)
FirstBodyReturnsJsc ==
  /\ pc \in {"break", "returned"}
  /\ iter = 1
  /\ IsZero(f)
  /\ J_new = args.Jsc
  /\ converged
  /\ pc = "returned" => result = args.Jsc
C8_AnyParameters ==
  (InCall /\ ShortCircuit(args) /\ iter >= 1) => FirstBodyReturnsJsc

\* C8: the same for finite Jsc and J0 and a product n*Vt that does not round
\* to zero.
FiniteShortCircuit(a) ==
  /\ ShortCircuit(a)
  /\ IsFinite(a.Jsc) /\ IsFinite(a.J0)
  /\ ~IsZero(FMul(a.n, Vt))
C8_ShortCircuitReturnsJsc ==
  (InCall /\ FiniteShortCircuit(args) /\ iter >= 1) => FirstBodyReturnsJsc

C8_ShortCircuitReturned ==
  /\ pc = "returned"
  /\ FiniteShortCircuit(args)
  /\ args.Jsc # Jsc /\ ~IsZero(args.Jsc)
  /\ args.J0 # J0 /\ ~IsZero(args.J0)
  /\ result = args.Jsc

\* C9: the value returned is the J_new of the last body run, J_guess - f/df of
\* that body, and there has been one: after the break it is the new iterate and
\* J_guess still holds the one before it; without the break it is the iterate
\* of body 100.
C9_ReturnsLastIterate ==
  pc = "returned"
    => /\ iter >= 1
       /\ result = J_new
       /\ J_new # Unset
       /\ J_new = NewtonStep(J_prev, f, df)
       /\ converged => J_guess = J_prev
       /\ ~converged => iter = MaxIter

C9_NewIterateReturned ==
  /\ pc = "returned"
  /\ converged
  /\ result = J_new
  /\ result # J_guess

\* C10: with finite arguments, J0 >= 0, Rs >= 0, n > 0, Vt > 0 and Rsh > 0,
\* every body computes df >= 1, so that f/df is not a division by zero and its
\* magnitude is at most |f|.
ValidParams(a) ==
  /\ IsFinite(a.V) /\ IsFinite(a.Jsc) /\ IsFinite(a.J0)
  /\ FLessEq(Zero(0), a.J0) /\ FLessEq(Zero(0), a.Rs)
  /\ IsPositive(a.n) /\ IsPositive(Vt) /\ IsPositive(a.Rsh)
C10_DerivativeAtLeastOne ==
  (InCall /\ ValidParams(args) /\ df # Unset)
    => /\ FLessEq(One, df)
       /\ ~IsZero(df)
       /\ FLessEq(FAbs(FDiv(f, df)), FAbs(f))

====
